---- MODULE Spec2Model ----
(***************************************************************************)
(* State-machine model of the PoseShift Cloud Function:                    *)
(*   functions/src/geminiService.ts  retryOperation, generatePoseDescription,*)
(*                                   generatePoseImage, generateWithPose   *)
(*   functions/src/datadogApi.ts     sendMetric, sendLog, LLMMetrics       *)
(*   functions/src/index.ts          generateWithAI                        *)
(* One sequential control flow (pc) plus the three HTTP requests of a      *)
(* direct report, which are in flight concurrently.                        *)
(***************************************************************************)
EXTENDS Integers, Sequences, FiniteSets, TLC

(* ------------------------------------------------------------------ *)
(* Bounds of the model                                                 *)
(* ------------------------------------------------------------------ *)
\* largest maxAttempts handed to retryOperation in the stand-alone runs
MaxAttemptsBound == 4

(* ------------------------------------------------------------------ *)
(* Program constants                                                   *)
(* ------------------------------------------------------------------ *)
MAX_RETRIES == 3
RETRY_DELAY_MS == 2000

None == [none |-> TRUE]

(* ------------------------------------------------------------------ *)
(* Error values.  cls is the JavaScript class of the thrown value;     *)
(* "NonError" is a thrown value that is not an instance of Error.      *)
(* ------------------------------------------------------------------ *)
ErrEmptyResponse ==
    [cls |-> "Error",
     message |-> "Pose analysis failed. The model did not return a description."]
ErrNoImageReturned ==
    [cls |-> "Error",
     message |-> "Image generation failed. The model did not return an image."]
ErrSyntax == [cls |-> "SyntaxError", message |-> "Unexpected token in JSON"]
ErrTypeUndefined ==
    [cls |-> "TypeError", message |-> "Cannot read properties of undefined"]
ErrTransport == [cls |-> "Error", message |-> "fetch failed"]
NonErrorValue == [cls |-> "NonError", message |-> "quota exceeded"]
\* an Error constructed without a message
ErrNoMessage == [cls |-> "Error", message |-> ""]
ErrInvalidHeader ==
    [cls |-> "TypeError", message |-> "Invalid character in header content"]

\* error instanceof Error
IsErrorInstance(e) == e.cls # "NonError"

\* error instanceof Error ? error.message : 'Unknown error'
ErrorMessageOf(error) ==
    IF IsErrorInstance(error) THEN error.message ELSE "Unknown error"

(* ------------------------------------------------------------------ *)
(* Results of one call of an operation / of retryOperation             *)
(* ------------------------------------------------------------------ *)
Returned(v) == [kind |-> "value", v |-> v]
Thrown(e) == [kind |-> "error", v |-> e]
NoResult == [kind |-> "none", v |-> None]

(* ------------------------------------------------------------------ *)
(* Remote analysis responses (ai.models.generateContent, step 1)       *)
(* A text is its surrounding whitespace and its body; the body names   *)
(* the characters between the whitespace.                              *)
(* ------------------------------------------------------------------ *)
Regions == {"head", "torso", "leftArm", "rightArm", "leftLeg", "rightLeg", "overall"}

MkText(pad, body) == [pad |-> pad, body |-> body]

Texts == {MkText(0, ""), MkText(1, ""), MkText(0, "garbage"),
          MkText(0, "poseA"), MkText(1, "poseB"), MkText(0, "poseNoHead")}

AnalysisResponses ==
    {[kind |-> "reject", err |-> ErrTransport, text |-> MkText(0, "")],
     [kind |-> "reject", err |-> NonErrorValue, text |-> MkText(0, "")],
     [kind |-> "reject", err |-> ErrNoMessage, text |-> MkText(0, "")]}
    \cup {[kind |-> "resolve", err |-> None, text |-> t] : t \in Texts}

\* !responseText : the empty string (or an absent text) is falsy
IsFalsyText(t) == t.pad = 0 /\ t.body = ""

\* responseText.trim()
Trim(t) == t.body

\* the object a JSON body denotes
PoseObject(tag, regions) ==
    [r \in regions |-> [description |-> <<tag, r>>]]

\* JSON.parse
JSONparse(body) ==
    CASE body = "poseA" -> Returned(PoseObject("A", Regions))
      [] body = "poseB" -> Returned(PoseObject("B", Regions))
      [] body = "poseNoHead" -> Returned(PoseObject("A", Regions \ {"head"}))
      [] OTHER -> Thrown(ErrSyntax)

\* the template of formattedDescription: the seven descriptions in the
\* order Overall, Head, Torso, Arms Left/Right, Legs Left/Right
TemplateOrder ==
    <<"overall", "head", "torso", "leftArm", "rightArm", "leftLeg", "rightLeg">>

RECURSIVE FirstMissing(_, _)
FirstMissing(pd, i) ==
    IF i > Len(TemplateOrder) THEN 0
    ELSE IF TemplateOrder[i] \notin DOMAIN pd THEN i
    ELSE FirstMissing(pd, i + 1)

FormatDescription(pd) ==
    [i \in 1..Len(TemplateOrder) |-> pd[TemplateOrder[i]].description]

\* the closure passed to retryOperation by generatePoseDescription
PoseOperation(resp) ==
    IF resp.kind = "reject" THEN Thrown(resp.err)
    ELSE IF IsFalsyText(resp.text) THEN Thrown(ErrEmptyResponse)
    ELSE LET parsed == JSONparse(Trim(resp.text)) IN
         IF parsed.kind = "error" THEN parsed
         ELSE IF FirstMissing(parsed.v, 1) # 0 THEN Thrown(ErrTypeUndefined)
         ELSE Returned([formattedDescription |-> FormatDescription(parsed.v),
                        poseData |-> parsed.v])

(* ------------------------------------------------------------------ *)
(* Remote image responses (ai.models.generateContent, step 2)          *)
(* A part is "text" (no inlineData), "nodata" (inlineData without      *)
(* data) or the base64 data it carries.                                *)
(* ------------------------------------------------------------------ *)
Images == {"img1", "img2"}
PartLists == {<<>>, <<"text">>, <<"img1">>, <<"text", "img2">>,
              <<"img1", "img2">>, <<"nodata", "img1">>, <<"nodata", "text">>}

MkImageResp(kind, err, cands) == [kind |-> kind, err |-> err, candidates |-> cands]

\* candidates: "absent", or a list whose first element is
\* "nocontent", "noparts" or a list of parts
ImageResponses ==
    {MkImageResp("reject", ErrTransport, <<"absent">>),
     MkImageResp("reject", NonErrorValue, <<"absent">>),
     MkImageResp("resolve", None, <<"absent">>),
     MkImageResp("resolve", None, <<"list">>),
     MkImageResp("resolve", None, <<"list", "nocontent">>),
     MkImageResp("resolve", None, <<"list", "noparts">>)}
    \cup {MkImageResp("resolve", None, <<"list", "parts", p>>) : p \in PartLists}

HasCandidates(resp) == resp.candidates[1] = "list"
CandidateCount(resp) == Len(resp.candidates) - 1
\* variant: any part with inlineData counts, whether or not it has data
HasImageData_anyInline(part) == part # "text"

HasImageData(part) == part \in Images

RECURSIVE FirstImage(_, _)
FirstImage(parts, i) ==
    IF i > Len(parts) THEN Thrown(ErrNoImageReturned)
    ELSE IF HasImageData(parts[i]) THEN Returned(parts[i])
    ELSE FirstImage(parts, i + 1)

\* the closure passed to retryOperation by generatePoseImage
ImageOperation(resp) ==
    IF resp.kind = "reject" THEN Thrown(resp.err)
    ELSE IF ~HasCandidates(resp) THEN Thrown(ErrNoImageReturned)
    ELSE IF CandidateCount(resp) = 0 THEN Thrown(ErrTypeUndefined)
    ELSE IF resp.candidates[2] # "parts" THEN Thrown(ErrNoImageReturned)
    ELSE FirstImage(resp.candidates[3], 1)

(* ------------------------------------------------------------------ *)
(* Outcomes of a stand-alone operation handed to retryOperation        *)
(* ------------------------------------------------------------------ *)
OpOutcomes == {Returned([val |-> "v1"]), Returned([val |-> "v2"]),
               Thrown(ErrTransport), Thrown(ErrSyntax), Thrown(NonErrorValue)}

OpScripts == UNION {[1..n -> OpOutcomes] : n \in 1..MaxAttemptsBound}

(* ------------------------------------------------------------------ *)
(* State                                                               *)
(* ------------------------------------------------------------------ *)
VARIABLES
    pc,             \* position of the single control flow
    DD_API_KEY,     \* process.env.DD_API_KEY: "unset", "valid", "invalid"
    request,        \* the CallableRequest: auth, userImage, poseImage present?
    \* retryOperation
    operationName,  \* "none", "operation", "generatePoseDescription", "generatePoseImage"
    attempt,        \* loop variable of retryOperation
    maxAttempts,    \* parameter of retryOperation
    lastError,      \* local of retryOperation
    opScript,       \* outcome of the stand-alone operation on each attempt
    invocations,    \* attempt numbers the operation was invoked with, in order
    delays,         \* delays waited by the current retryOperation call, in ms each
    retryResult,    \* what retryOperation returned or threw
    \* remote generation client
    analysisLog,    \* responses of the remote analysis calls, in order
    imageCalls,     \* number of remote image-generation calls
    lastImageResp,  \* response of the latest remote image-generation call
    imageInput,     \* description and pose data handed to generatePoseImage
    \* generateWithPose
    poseResult,     \* { formattedDescription, poseData } of step 1
    generatedImage, \* result of step 2
    parentSpan, analyzeSpan, generateSpan,
    caught,         \* the error bound in the catch block
    reports,        \* calls of recordSuccess / recordError so far
    subReports,     \* the three sub-reports of the report being awaited
    httpRequests,   \* number of HTTP requests issued to the telemetry backend
    result,         \* the GenerationResult returned by generateWithPose
    raised,         \* the error generateWithPose rejected with
    \* generateWithAI
    flushed,        \* the handler has waited for the tracer flush
    response,       \* what generateWithAI handed back to its caller
    \* a second invocation in the same process
    other           \* the locals of the invocation that is not running now

vars == <<pc, DD_API_KEY, request, operationName, attempt, maxAttempts,
          lastError, opScript, invocations, delays, retryResult, analysisLog,
          imageCalls, lastImageResp, imageInput, poseResult, generatedImage,
          parentSpan, analyzeSpan, generateSpan, caught, reports,
          subReports, httpRequests, result, raised, flushed, response, other>>

retryVars == <<operationName, attempt, maxAttempts, lastError, invocations,
               delays, retryResult>>
remoteVars == <<analysisLog, imageCalls, lastImageResp, imageInput>>
spanVars == <<parentSpan, analyzeSpan, generateSpan>>
reportVars == <<reports, subReports, httpRequests>>
pipelineVars == <<poseResult, generatedImage, caught, result, raised>>
handlerVars == <<flushed, response>>
envVars == <<DD_API_KEY, request, opScript, other>>

(* ------------------------------------------------------------------ *)
(* Spans                                                               *)
(* ------------------------------------------------------------------ *)
NoSpan == [started |-> FALSE, status |-> "unset", finishes |-> 0,
           tagsAfterFinish |-> 0]

\* tracer.startSpan(name, { childOf, tags })
startSpan == [NoSpan EXCEPT !.started = TRUE]

\* datadogHelper.startLLMSpan(operation, model)
startLLMSpan == startSpan

\* span.setTag('llm.status', v)
setStatusTag(span, v) ==
    [span EXCEPT !.status = v,
                 !.tagsAfterFinish = @ + (IF span.finishes > 0 THEN 1 ELSE 0)]

\* span.finish()
finish(span) == [span EXCEPT !.finishes = @ + 1]

(* ------------------------------------------------------------------ *)
(* Initial states                                                      *)
(* ------------------------------------------------------------------ *)
NoSubReports ==
    [i \in 1..3 |-> [kind |-> "none", state |-> "none", requests |-> 0,
                     entry |-> None]]

InitCommon ==
    /\ lastError = None
    /\ invocations = <<>>
    /\ delays = <<>>
    /\ retryResult = NoResult
    /\ analysisLog = <<>>
    /\ imageCalls = 0
    /\ lastImageResp = None
    /\ imageInput = None
    /\ poseResult = None
    /\ generatedImage = None
    /\ parentSpan = NoSpan
    /\ analyzeSpan = NoSpan
    /\ generateSpan = NoSpan
    /\ caught = None
    /\ reports = [success |-> 0, error |-> 0]
    /\ subReports = NoSubReports
    /\ httpRequests = 0
    /\ result = None
    /\ raised = None
    /\ flushed = FALSE
    /\ response = None

\* a request arrives at generateWithAI
Init ==
    /\ pc = "generateWithAI"
    /\ DD_API_KEY \in {"unset", "valid", "invalid"}
    /\ request \in [auth : BOOLEAN, userImage : BOOLEAN, poseImage : BOOLEAN]
    /\ operationName = "none"
    /\ attempt = 0
    /\ maxAttempts = 0
    /\ opScript = <<>>
    /\ other = None
    /\ InitCommon

\* retryOperation is called on its own with an operation whose outcome on
\* each attempt is fixed by opScript
InitRetry ==
    /\ pc = "retry_loop"
    /\ DD_API_KEY = "unset"
    /\ request = [auth |-> FALSE, userImage |-> FALSE, poseImage |-> FALSE]
    /\ operationName = "operation"
    /\ attempt = 1
    /\ opScript \in OpScripts
    /\ maxAttempts = Len(opScript)
    /\ other = None
    /\ InitCommon

(* ------------------------------------------------------------------ *)
(* retryOperation                                                      *)
(* ------------------------------------------------------------------ *)
\* entry: let lastError; for (let attempt = 1; ...
EnterRetry(name) ==
    /\ operationName' = name
    /\ attempt' = 1
    /\ maxAttempts' = MAX_RETRIES
    /\ lastError' = None
    /\ invocations' = <<>>
    /\ delays' = <<>>
    /\ retryResult' = NoResult

\* variant: the operation is handed a 0-based attempt number
RetryInvoke_zeroIndexed ==
    /\ pc = "retry_loop"
    /\ attempt <= maxAttempts
    /\ invocations' = Append(invocations, attempt - 1)
    /\ imageCalls' = imageCalls + (IF operationName = "generatePoseImage" THEN 1 ELSE 0)
    /\ pc' = "operation"
    /\ UNCHANGED <<operationName, attempt, maxAttempts, lastError, delays,
                   retryResult, analysisLog, lastImageResp, imageInput>>
    /\ UNCHANGED <<envVars, spanVars, reportVars, pipelineVars, handlerVars>>

\* attempt <= maxAttempts: the operation is invoked and its remote call
\* is in flight
RetryInvoke ==
    /\ pc = "retry_loop"
    /\ attempt <= maxAttempts
    /\ invocations' = Append(invocations, attempt)
    /\ imageCalls' = imageCalls + (IF operationName = "generatePoseImage" THEN 1 ELSE 0)
    /\ pc' = "operation"
    /\ UNCHANGED <<operationName, attempt, maxAttempts, lastError, delays,
                   retryResult, analysisLog, lastImageResp, imageInput>>
    /\ UNCHANGED <<envVars, spanVars, reportVars, pipelineVars, handlerVars>>

\* what the awaited operation(attempt) does, given the remote response
OperationResult(name, n, resp) ==
    CASE name = "generatePoseDescription" -> PoseOperation(resp)
      [] name = "generatePoseImage" -> ImageOperation(resp)
      [] OTHER -> opScript[n]

\* a second invocation exists in the process
Concurrent == "pc" \in DOMAIN other

\* the remote responses drawn when two invocations run: a failure and a
\* good response of the analysis, a failure and two distinguishable good
\* responses of the image generation
ConcurrentAnalysisResponses ==
    {[kind |-> "reject", err |-> ErrTransport, text |-> MkText(0, "")],
     [kind |-> "resolve", err |-> None, text |-> MkText(0, "poseA")]}

ConcurrentImageResponses ==
    {MkImageResp("resolve", None, <<"absent">>),
     MkImageResp("resolve", None, <<"list", "parts", <<"img1">>>>),
     MkImageResp("resolve", None, <<"list", "parts", <<"text", "img2">>>>)}

RemoteResponses(name) ==
    CASE name = "generatePoseDescription" ->
             IF Concurrent THEN ConcurrentAnalysisResponses ELSE AnalysisResponses
      [] name = "generatePoseImage" ->
             IF Concurrent THEN ConcurrentImageResponses ELSE ImageResponses
      [] OTHER -> {None}

\* variant: the delay is waited after every failure, the last one included
AfterFailure_alwaysDelay(n, max) == "retry_delay"

\* the catch block of one attempt: where control goes after a failure
AfterFailure(n, max) == IF n < max THEN "retry_delay" ELSE "retry_loop"

\* variant: return operation(attempt) without await, so that a rejection
\* is not caught by the try block and leaves retryOperation at once
OperationSettles_noAwait ==
    /\ pc = "operation"
    /\ \E resp \in RemoteResponses(operationName) :
         /\ retryResult' = OperationResult(operationName, attempt, resp)
         /\ analysisLog' = IF operationName = "generatePoseDescription"
                           THEN Append(analysisLog, resp) ELSE analysisLog
         /\ lastImageResp' = IF operationName = "generatePoseImage"
                             THEN resp ELSE lastImageResp
    /\ pc' = "retry_done"
    /\ UNCHANGED <<operationName, attempt, maxAttempts, lastError, invocations,
                   delays, imageCalls, imageInput>>
    /\ UNCHANGED <<envVars, spanVars, reportVars, pipelineVars, handlerVars>>

\* variant: a SyntaxError is classified as not retryable and leaves
\* retryOperation at once
OperationSettles_abortOnSyntax ==
    /\ pc = "operation"
    /\ \E resp \in RemoteResponses(operationName) :
         LET r == OperationResult(operationName, attempt, resp) IN
         /\ analysisLog' = IF operationName = "generatePoseDescription"
                           THEN Append(analysisLog, resp) ELSE analysisLog
         /\ lastImageResp' = IF operationName = "generatePoseImage"
                             THEN resp ELSE lastImageResp
         /\ IF r.kind = "value"
            THEN /\ retryResult' = r
                 /\ pc' = "retry_done"
                 /\ UNCHANGED <<lastError, attempt>>
            ELSE IF r.v.cls = "SyntaxError"
            THEN /\ retryResult' = r
                 /\ lastError' = r.v
                 /\ pc' = "retry_done"
                 /\ UNCHANGED attempt
            ELSE /\ lastError' = r.v
                 /\ pc' = AfterFailure(attempt, maxAttempts)
                 /\ attempt' = IF attempt < maxAttempts THEN attempt ELSE attempt + 1
                 /\ UNCHANGED retryResult
    /\ UNCHANGED <<operationName, maxAttempts, invocations, delays, imageCalls,
                   imageInput>>
    /\ UNCHANGED <<envVars, spanVars, reportVars, pipelineVars, handlerVars>>

\* the awaited operation settles: return its value, or catch its error
OperationSettles ==
    /\ pc = "operation"
    /\ \E resp \in RemoteResponses(operationName) :
         LET r == OperationResult(operationName, attempt, resp) IN
         /\ analysisLog' = IF operationName = "generatePoseDescription"
                           THEN Append(analysisLog, resp) ELSE analysisLog
         /\ lastImageResp' = IF operationName = "generatePoseImage"
                             THEN resp ELSE lastImageResp
         /\ IF r.kind = "value"
            THEN /\ retryResult' = r
                 /\ pc' = "retry_done"
                 /\ UNCHANGED <<lastError, attempt>>
            ELSE /\ lastError' = r.v
                 /\ pc' = AfterFailure(attempt, maxAttempts)
                 /\ attempt' = IF attempt < maxAttempts THEN attempt ELSE attempt + 1
                 /\ UNCHANGED retryResult
    /\ UNCHANGED <<operationName, maxAttempts, invocations, delays, imageCalls,
                   imageInput>>
    /\ UNCHANGED <<envVars, spanVars, reportVars, pipelineVars, handlerVars>>

\* await new Promise(resolve => setTimeout(resolve, delayMs)); attempt++
RetryDelayElapsed ==
    /\ pc = "retry_delay"
    /\ delays' = Append(delays, RETRY_DELAY_MS)
    /\ attempt' = attempt + 1
    /\ pc' = "retry_loop"
    /\ UNCHANGED <<operationName, maxAttempts, lastError, invocations, retryResult>>
    /\ UNCHANGED <<envVars, remoteVars, spanVars, reportVars, pipelineVars, handlerVars>>

\* variant: the last failure is wrapped in a new error
ExhaustedError_wrapped(last) ==
    [cls |-> "Error", message |-> "All attempts failed"]

\* the value retryOperation throws once the loop is over
ExhaustedError(last) == last

\* attempt > maxAttempts: console.error(...); throw lastError
RetryExhausted ==
    /\ pc = "retry_loop"
    /\ attempt > maxAttempts
    /\ retryResult' = Thrown(ExhaustedError(lastError))
    /\ pc' = "retry_done"
    /\ UNCHANGED <<operationName, attempt, maxAttempts, lastError, invocations, delays>>
    /\ UNCHANGED <<envVars, remoteVars, spanVars, reportVars, pipelineVars, handlerVars>>

(* ------------------------------------------------------------------ *)
(* Direct reports: sendMetric, sendLog, LLMMetrics                     *)
(* ------------------------------------------------------------------ *)
HttpOutcomes == {"200", "202", "500", "error"}

SuccessReport == <<"count:success", "latency", "log:info">>
ErrorReport == <<"count:error", "error.count", "log:error">>

IsLog(kind) == kind \in {"log:info", "log:error"}

\* the status codes the response handler accepts
Accepted(kind, outcome) ==
    IF IsLog(kind) THEN outcome \in {"200", "202"} ELSE outcome = "202"

\* states of a sub-report whose promise is resolved
Resolved == {"skipped", "delivered", "dropped"}

\* variant: no early return when the key is missing, so that the request
\* is built with an undefined DD-API-KEY header
SendStart_noKeyCheck(key) ==
    IF key = "valid" THEN "inflight" ELSE "rejected"

\* sendMetric / sendLog up to the point the request is written: without a
\* key nothing is sent; a key that is no legal header value makes
\* https.request throw inside the promise executor
SendStart(key) ==
    CASE key = "unset" -> "skipped"
      [] key = "invalid" -> "rejected"
      [] OTHER -> "inflight"

\* variant: a refused or failed delivery rejects the promise
SendSettle_rejecting(kind, outcome) ==
    IF Accepted(kind, outcome) THEN "delivered" ELSE "rejected"

\* res.on('end') / req.on('error'): every outcome resolves the promise
SendSettle(kind, outcome) ==
    IF Accepted(kind, outcome) THEN "delivered" ELSE "dropped"

\* process.env.DD_SERVICE || 'poseshift-ai', process.env.DD_ENV || 'prod'
DD_SERVICE == "poseshift-ai"
DD_ENV == "prod"

\* { ...a, ...b }: the fields of both objects, those of b taking precedence
ObjectSpread(a, b) ==
    [f \in DOMAIN a \cup DOMAIN b |-> IF f \in DOMAIN b THEN b[f] ELSE a[f]]

\* the logEntry object sendLog builds: the six base fields, then
\* ...additionalData
logEntry(message, level, additionalData) ==
    ObjectSpread([ddsource |-> "nodejs",
                  ddtags |-> <<"env:", DD_ENV, ",service:", DD_SERVICE>>,
                  hostname |-> "firebase-functions",
                  message |-> message,
                  service |-> DD_SERVICE,
                  status |-> level],
                 additionalData)

\* the arguments recordSuccess / recordError hand to sendLog; latency_ms is
\* a measured time, written here as the name of the measurement
LogMessage(kind, errorMessage) ==
    IF kind = "log:info"
    THEN <<"LLM generation completed: ", "full_generation">>
    ELSE <<"LLM generation failed: ", "full_generation", " - ", errorMessage>>

LogLevel(kind) == IF kind = "log:info" THEN "info" ELSE "error"

LogAdditionalData(kind, errorMessage) ==
    IF kind = "log:info"
    THEN [operation |-> "full_generation", model |-> "gemini-pipeline",
          latency_ms |-> "latency", status |-> "success"]
    ELSE [operation |-> "full_generation", model |-> "gemini-pipeline",
          latency_ms |-> "latency", status |-> "error", error |-> errorMessage]

\* the log entry written to the request of sub-report kind, if it is a log
\* line and its request is sent
SubmittedEntry(kind, key) ==
    IF IsLog(kind) /\ SendStart(key) = "inflight"
    THEN LET errorMessage == IF kind = "log:error" THEN ErrorMessageOf(caught')
                             ELSE ""
         IN  logEntry(LogMessage(kind, errorMessage), LogLevel(kind),
                      LogAdditionalData(kind, errorMessage))
    ELSE None

\* the three calls inside Promise.all([...]) of recordSuccess / recordError
IssueReport(kinds) ==
    /\ subReports' = [i \in 1..3 |->
                        [kind |-> kinds[i], state |-> SendStart(DD_API_KEY),
                         requests |-> IF SendStart(DD_API_KEY) = "inflight" THEN 1 ELSE 0,
                         entry |-> SubmittedEntry(kinds[i], DD_API_KEY)]]
    /\ httpRequests' = httpRequests + (IF SendStart(DD_API_KEY) = "inflight" THEN 3 ELSE 0)

\* metrics.recordSuccess()
recordSuccess ==
    /\ reports' = [reports EXCEPT !.success = @ + 1]
    /\ IssueReport(SuccessReport)

\* variant: the error report sends the latency gauge in place of the
\* error-count metric
recordError_withLatency ==
    /\ reports' = [reports EXCEPT !.error = @ + 1]
    /\ IssueReport(<<"count:error", "latency", "log:error">>)

\* metrics.recordError(errorMessage)
recordError ==
    /\ reports' = [reports EXCEPT !.error = @ + 1]
    /\ IssueReport(ErrorReport)

\* variant: a delivery that was refused or failed is sent once more
HttpSettles_retrying ==
    /\ \E i \in 1..3 :
         /\ subReports[i].state = "inflight"
         /\ \E outcome \in HttpOutcomes :
              IF ~Accepted(subReports[i].kind, outcome) /\ subReports[i].requests < 2
              THEN /\ subReports' = [subReports EXCEPT ![i].requests = @ + 1]
                   /\ httpRequests' = httpRequests + 1
              ELSE /\ subReports' = [subReports EXCEPT
                               ![i].state = SendSettle(subReports[i].kind, outcome)]
                   /\ UNCHANGED httpRequests
    /\ UNCHANGED <<pc, reports>>
    /\ UNCHANGED <<envVars, retryVars, remoteVars, spanVars, pipelineVars, handlerVars>>

\* the response or the error event of one HTTP request arrives
HttpSettles ==
    /\ \E i \in 1..3 :
         /\ subReports[i].state = "inflight"
         /\ \E outcome \in HttpOutcomes :
              subReports' = [subReports EXCEPT
                               ![i].state = SendSettle(subReports[i].kind, outcome)]
    /\ UNCHANGED <<pc, reports, httpRequests>>
    /\ UNCHANGED <<envVars, retryVars, remoteVars, spanVars, pipelineVars, handlerVars>>

\* the report that is being awaited
AwaitedReport == IF reports.error > 0 THEN "error" ELSE "success"

(* ------------------------------------------------------------------ *)
(* generateWithPose                                                    *)
(* ------------------------------------------------------------------ *)
\* startTime, new LLMMetrics(...), datadogHelper.startLLMSpan(...)
StartPipeline ==
    /\ pc = "generateWithPose"
    /\ parentSpan' = startLLMSpan
    /\ pc' = "step1"
    /\ UNCHANGED <<analyzeSpan, generateSpan>>
    /\ UNCHANGED <<envVars, retryVars, remoteVars, reportVars, pipelineVars, handlerVars>>

\* Step 1: open the child span and call generatePoseDescription
StartPoseAnalysis ==
    /\ pc = "step1"
    /\ analyzeSpan' = startSpan
    /\ EnterRetry("generatePoseDescription")
    /\ pc' = "retry_loop"
    /\ UNCHANGED <<parentSpan, generateSpan>>
    /\ UNCHANGED <<envVars, remoteVars, reportVars, pipelineVars, handlerVars>>

\* generatePoseDescription returned: tag and finish the child span
PoseAnalysisReturned ==
    /\ pc = "retry_done"
    /\ operationName = "generatePoseDescription"
    /\ retryResult.kind = "value"
    /\ poseResult' = retryResult.v
    /\ analyzeSpan' = finish(setStatusTag(analyzeSpan, "success"))
    /\ pc' = "step2"
    /\ UNCHANGED <<parentSpan, generateSpan, generatedImage, caught, result, raised>>
    /\ UNCHANGED <<envVars, retryVars, remoteVars, reportVars, handlerVars>>

\* variant: step 2 is handed the pose data without the description
StartImageGeneration_noDescription ==
    /\ pc = "step2"
    /\ generateSpan' = startSpan
    /\ imageInput' = [poseResult EXCEPT !.formattedDescription = <<>>]
    /\ EnterRetry("generatePoseImage")
    /\ pc' = "retry_loop"
    /\ UNCHANGED <<parentSpan, analyzeSpan, analysisLog, imageCalls, lastImageResp>>
    /\ UNCHANGED <<envVars, reportVars, pipelineVars, handlerVars>>

\* Step 2: open the child span and call generatePoseImage
StartImageGeneration ==
    /\ pc = "step2"
    /\ generateSpan' = startSpan
    /\ imageInput' = poseResult
    /\ EnterRetry("generatePoseImage")
    /\ pc' = "retry_loop"
    /\ UNCHANGED <<parentSpan, analyzeSpan, analysisLog, imageCalls, lastImageResp>>
    /\ UNCHANGED <<envVars, reportVars, pipelineVars, handlerVars>>

\* generatePoseImage returned: tag and finish the child span, tag the
\* parent span and call metrics.recordSuccess()
ImageGenerationReturned ==
    /\ pc = "retry_done"
    /\ operationName = "generatePoseImage"
    /\ retryResult.kind = "value"
    /\ generatedImage' = retryResult.v
    /\ generateSpan' = finish(setStatusTag(generateSpan, "success"))
    /\ parentSpan' = setStatusTag(parentSpan, "success")
    /\ recordSuccess
    /\ pc' = "await_report"
    /\ UNCHANGED <<analyzeSpan, poseResult, caught, result, raised>>
    /\ UNCHANGED <<envVars, retryVars, remoteVars, handlerVars>>

\* variant: the catch block does not set llm.status on the parent span
Catch_noStatus(error) ==
    /\ caught' = error
    /\ recordError
    /\ pc' = "await_report"
    /\ UNCHANGED <<spanVars, poseResult, generatedImage, result, raised>>
    /\ UNCHANGED <<envVars, retryVars, remoteVars, handlerVars>>

\* variant: the catch block finishes the parent span before the report
Catch_finishFirst(error) ==
    /\ caught' = error
    /\ parentSpan' = finish(setStatusTag(parentSpan, "error"))
    /\ recordError
    /\ pc' = "await_report"
    /\ UNCHANGED <<analyzeSpan, generateSpan, poseResult, generatedImage, result, raised>>
    /\ UNCHANGED <<envVars, retryVars, remoteVars, handlerVars>>

\* the catch block up to the await: tag the parent span and call
\* metrics.recordError(errorMessage)
Catch(error) ==
    /\ caught' = error
    /\ parentSpan' = setStatusTag(parentSpan, "error")
    /\ recordError
    /\ pc' = "await_report"
    /\ UNCHANGED <<analyzeSpan, generateSpan, poseResult, generatedImage, result, raised>>
    /\ UNCHANGED <<envVars, retryVars, remoteVars, handlerVars>>

\* variant: a failed image step sends the pipeline back to step 1
StepFailed_restart ==
    /\ pc = "retry_done"
    /\ operationName \in {"generatePoseDescription", "generatePoseImage"}
    /\ retryResult.kind = "error"
    /\ IF operationName = "generatePoseImage" /\ Len(analysisLog) <= MAX_RETRIES
       THEN /\ pc' = "step1"
            /\ UNCHANGED <<envVars, retryVars, remoteVars, spanVars, reportVars,
                           pipelineVars, handlerVars>>
       ELSE Catch(retryResult.v)

\* generatePoseDescription or generatePoseImage threw
StepFailed ==
    /\ pc = "retry_done"
    /\ operationName \in {"generatePoseDescription", "generatePoseImage"}
    /\ retryResult.kind = "error"
    /\ Catch(retryResult.v)

\* variant: the report resolves with the first sub-report that resolves
ReportResolves_first ==
    /\ pc = "await_report"
    /\ \E i \in 1..3 : subReports[i].state \in Resolved
    /\ pc' = IF AwaitedReport = "success" THEN "return_success" ELSE "return_failure"
    /\ UNCHANGED <<envVars, retryVars, remoteVars, spanVars, reportVars,
                   pipelineVars, handlerVars>>

\* Promise.all resolves once the three sub-reports have resolved
ReportResolves ==
    /\ pc = "await_report"
    /\ \A i \in 1..3 : subReports[i].state \in Resolved
    /\ pc' = IF AwaitedReport = "success" THEN "return_success" ELSE "return_failure"
    /\ UNCHANGED <<envVars, retryVars, remoteVars, spanVars, reportVars,
                   pipelineVars, handlerVars>>

\* await metrics.recordSuccess() throws inside the try block
RecordSuccessRejects ==
    /\ pc = "await_report"
    /\ AwaitedReport = "success"
    /\ \E i \in 1..3 : subReports[i].state = "rejected"
    /\ Catch(ErrInvalidHeader)

\* variant: parentSpan.finish() after the try statement instead of in finally
RecordErrorRejects_noFinally ==
    /\ pc = "await_report"
    /\ AwaitedReport = "error"
    /\ \E i \in 1..3 : subReports[i].state = "rejected"
    /\ raised' = ErrInvalidHeader
    /\ pc' = "generateWithPose_exit"
    /\ UNCHANGED <<spanVars, poseResult, generatedImage, caught, result>>
    /\ UNCHANGED <<envVars, retryVars, remoteVars, reportVars, handlerVars>>

\* await metrics.recordError() throws inside the catch block: the finally
\* block runs and the error leaves generateWithPose
RecordErrorRejects ==
    /\ pc = "await_report"
    /\ AwaitedReport = "error"
    /\ \E i \in 1..3 : subReports[i].state = "rejected"
    /\ parentSpan' = finish(parentSpan)
    /\ raised' = ErrInvalidHeader
    /\ pc' = "generateWithPose_exit"
    /\ UNCHANGED <<analyzeSpan, generateSpan, poseResult, generatedImage, caught, result>>
    /\ UNCHANGED <<envVars, retryVars, remoteVars, reportVars, handlerVars>>

\* the GenerationResult of the try block
SuccessResult(image, pose) ==
    [success |-> TRUE, generatedImage |-> image,
     poseDescription |-> pose.formattedDescription, poseData |-> pose.poseData]

\* the GenerationResult of the catch block
FailureResult(error) ==
    [success |-> FALSE, error |-> ErrorMessageOf(error)]

\* return { success: true, ... }; finally parentSpan.finish()
ReturnSuccess ==
    /\ pc = "return_success"
    /\ result' = SuccessResult(generatedImage, poseResult)
    /\ parentSpan' = finish(parentSpan)
    /\ pc' = "generateWithPose_exit"
    /\ UNCHANGED <<analyzeSpan, generateSpan, poseResult, generatedImage, caught, raised>>
    /\ UNCHANGED <<envVars, retryVars, remoteVars, reportVars, handlerVars>>

\* variant: the failure return leaves without finishing the parent span
ReturnFailure_noFinally ==
    /\ pc = "return_failure"
    /\ result' = [success |-> FALSE, error |-> ErrorMessageOf(caught)]
    /\ pc' = "generateWithPose_exit"
    /\ UNCHANGED <<spanVars, poseResult, generatedImage, caught, raised>>
    /\ UNCHANGED <<envVars, retryVars, remoteVars, reportVars, handlerVars>>

\* variant: the finally block tags the parent span after finishing it
ReturnFailure_tagAfterFinish ==
    /\ pc = "return_failure"
    /\ result' = FailureResult(caught)
    /\ parentSpan' = setStatusTag(finish(parentSpan), "error")
    /\ pc' = "generateWithPose_exit"
    /\ UNCHANGED <<analyzeSpan, generateSpan, poseResult, generatedImage, caught, raised>>
    /\ UNCHANGED <<envVars, retryVars, remoteVars, reportVars, handlerVars>>

\* return { success: false, error }; finally parentSpan.finish()
ReturnFailure ==
    /\ pc = "return_failure"
    /\ result' = FailureResult(caught)
    /\ parentSpan' = finish(parentSpan)
    /\ pc' = "generateWithPose_exit"
    /\ UNCHANGED <<analyzeSpan, generateSpan, poseResult, generatedImage, caught, raised>>
    /\ UNCHANGED <<envVars, retryVars, remoteVars, reportVars, handlerVars>>

(* ------------------------------------------------------------------ *)
(* generateWithAI                                                      *)
(* ------------------------------------------------------------------ *)
HttpsError(code, message) == [kind |-> "error", code |-> code, message |-> message]

\* variant: the handler raises the fixed text whatever the outcome's error
ErrorOrDefault_constant(message) == "Generation failed"

\* result.error || 'Generation failed'
ErrorOrDefault(message) == IF message = "" THEN "Generation failed" ELSE message

\* if (!request.auth) throw new HttpsError('unauthenticated', ...)
RejectUnauthenticated ==
    /\ pc = "generateWithAI"
    /\ ~request.auth
    /\ response' = HttpsError("unauthenticated", "User must be logged in")
    /\ pc' = "done"
    /\ UNCHANGED flushed
    /\ UNCHANGED <<envVars, retryVars, remoteVars, spanVars, reportVars, pipelineVars>>

\* if (!userImage || !poseImage) throw new HttpsError('invalid-argument', ...)
RejectInvalidArgument ==
    /\ pc = "generateWithAI"
    /\ request.auth
    /\ ~(request.userImage /\ request.poseImage)
    /\ response' = HttpsError("invalid-argument", "Missing image data")
    /\ pc' = "done"
    /\ UNCHANGED flushed
    /\ UNCHANGED <<envVars, retryVars, remoteVars, spanVars, reportVars, pipelineVars>>

\* const result = await generateWithPose(apiKey, userImage, poseImage)
InvokePipeline ==
    /\ pc = "generateWithAI"
    /\ request.auth /\ request.userImage /\ request.poseImage
    /\ pc' = "generateWithPose"
    /\ UNCHANGED <<envVars, retryVars, remoteVars, spanVars, reportVars,
                   pipelineVars, handlerVars>>

\* the await of generateWithPose throws: the error leaves the handler
PipelineRaised ==
    /\ pc = "generateWithPose_exit"
    /\ "cls" \in DOMAIN raised
    /\ response' = [kind |-> "error", code |-> "uncaught", message |-> raised.message]
    /\ pc' = "done"
    /\ UNCHANGED flushed
    /\ UNCHANGED <<envVars, retryVars, remoteVars, spanVars, reportVars, pipelineVars>>

\* if (!result.success) throw new HttpsError('internal', ...)
PipelineFailed ==
    /\ pc = "generateWithPose_exit"
    /\ "success" \in DOMAIN result
    /\ ~result.success
    /\ response' = HttpsError("internal", ErrorOrDefault(result.error))
    /\ pc' = "done"
    /\ UNCHANGED flushed
    /\ UNCHANGED <<envVars, retryVars, remoteVars, spanVars, reportVars, pipelineVars>>

\* await new Promise(resolve => tracer.flush(() => resolve()))
StartFlush ==
    /\ pc = "generateWithPose_exit"
    /\ "success" \in DOMAIN result
    /\ result.success
    /\ pc' = "flushing"
    /\ UNCHANGED <<envVars, retryVars, remoteVars, spanVars, reportVars,
                   pipelineVars, handlerVars>>

\* the flush callback (or the 100 ms timer) fires; return { success: true, ... }
FlushDone ==
    /\ pc = "flushing"
    /\ flushed' = TRUE
    /\ response' = [kind |-> "ok", code |-> "ok", message |-> ""]
    /\ pc' = "done"
    /\ UNCHANGED <<envVars, retryVars, remoteVars, spanVars, reportVars, pipelineVars>>

Next ==
    \/ RejectUnauthenticated
    \/ RejectInvalidArgument
    \/ InvokePipeline
    \/ StartPipeline
    \/ StartPoseAnalysis
    \/ RetryInvoke
    \/ OperationSettles
    \/ RetryDelayElapsed
    \/ RetryExhausted
    \/ PoseAnalysisReturned
    \/ StartImageGeneration
    \/ ImageGenerationReturned
    \/ StepFailed
    \/ HttpSettles
    \/ ReportResolves
    \/ RecordSuccessRejects
    \/ RecordErrorRejects
    \/ ReturnSuccess
    \/ ReturnFailure
    \/ PipelineRaised
    \/ PipelineFailed
    \/ StartFlush
    \/ FlushDone

Spec == Init /\ [][Next]_vars

(* ------------------------------------------------------------------ *)
(* retryOperation when a console call raises                           *)
(* ------------------------------------------------------------------ *)
ErrConsole == [cls |-> "Error", message |-> "console write failed"]

\* console.log('Attempt n/N started...') raises inside the try block: the
\* catch block takes it for the attempt's failure, operation is not invoked
ConsoleRaisesAtAttemptStart ==
    /\ pc = "retry_loop"
    /\ attempt <= maxAttempts
    /\ attempt > 1
    /\ lastError' = ErrConsole
    /\ pc' = AfterFailure(attempt, maxAttempts)
    /\ attempt' = IF attempt < maxAttempts THEN attempt ELSE attempt + 1
    /\ UNCHANGED <<operationName, maxAttempts, invocations, delays, retryResult>>
    /\ UNCHANGED <<envVars, remoteVars, spanVars, reportVars, pipelineVars, handlerVars>>

\* console.warn('Attempt n failed') or console.log('Retrying in ...')
\* raises inside the catch block: the exception leaves retryOperation
ConsoleRaisesInCatch ==
    /\ pc = "operation"
    /\ \E resp \in RemoteResponses(operationName) :
         LET r == OperationResult(operationName, attempt, resp) IN
         /\ r.kind = "error"
         /\ lastError' = r.v
         /\ analysisLog' = IF operationName = "generatePoseDescription"
                           THEN Append(analysisLog, resp) ELSE analysisLog
         /\ lastImageResp' = IF operationName = "generatePoseImage"
                             THEN resp ELSE lastImageResp
    /\ retryResult' = Thrown(ErrConsole)
    /\ pc' = "retry_done"
    /\ UNCHANGED <<operationName, attempt, maxAttempts, invocations, delays,
                   imageCalls, imageInput>>
    /\ UNCHANGED <<envVars, spanVars, reportVars, pipelineVars, handlerVars>>

\* console.error('All N attempts failed.') raises: throw lastError is not
\* reached
ConsoleRaisesAtExhaustion ==
    /\ pc = "retry_loop"
    /\ attempt > maxAttempts
    /\ retryResult' = Thrown(ErrConsole)
    /\ pc' = "retry_done"
    /\ UNCHANGED <<operationName, attempt, maxAttempts, lastError, invocations, delays>>
    /\ UNCHANGED <<envVars, remoteVars, spanVars, reportVars, pipelineVars, handlerVars>>

NextRetryLogging ==
    \/ RetryInvoke
    \/ OperationSettles
    \/ RetryDelayElapsed
    \/ RetryExhausted
    \/ ConsoleRaisesAtAttemptStart
    \/ ConsoleRaisesInCatch
    \/ ConsoleRaisesAtExhaustion

SpecRetryLogging == InitRetry /\ [][NextRetryLogging]_vars

NextRetry ==
    \/ RetryInvoke
    \/ OperationSettles
    \/ RetryDelayElapsed
    \/ RetryExhausted

SpecRetry == InitRetry /\ [][NextRetry]_vars

(* ------------------------------------------------------------------ *)
(* Two invocations in one process.  JavaScript runs one invocation at  *)
(* a time and can change to the other one only where the running one   *)
(* awaits; everything an invocation of generateWithAI / generateWithPose *)
(* works on is a local of that invocation (request, the retry loop's   *)
(* variables, poseResult, generatedImage, metrics, the three spans).   *)
(* ------------------------------------------------------------------ *)
Locals ==
    [pc |-> pc, request |-> request, operationName |-> operationName,
     attempt |-> attempt, maxAttempts |-> maxAttempts, lastError |-> lastError,
     invocations |-> invocations, delays |-> delays, retryResult |-> retryResult,
     analysisLog |-> analysisLog, imageCalls |-> imageCalls,
     lastImageResp |-> lastImageResp, imageInput |-> imageInput,
     poseResult |-> poseResult, generatedImage |-> generatedImage,
     parentSpan |-> parentSpan, analyzeSpan |-> analyzeSpan,
     generateSpan |-> generateSpan, caught |-> caught, reports |-> reports,
     subReports |-> subReports, httpRequests |-> httpRequests,
     result |-> result, raised |-> raised, flushed |-> flushed,
     response |-> response]

\* the locals of an invocation whose handler has not begun to run
FreshLocals(req) ==
    [pc |-> "generateWithAI", request |-> req, operationName |-> "none",
     attempt |-> 0, maxAttempts |-> 0, lastError |-> None,
     invocations |-> <<>>, delays |-> <<>>, retryResult |-> NoResult,
     analysisLog |-> <<>>, imageCalls |-> 0,
     lastImageResp |-> None, imageInput |-> None,
     poseResult |-> None, generatedImage |-> None,
     parentSpan |-> NoSpan, analyzeSpan |-> NoSpan,
     generateSpan |-> NoSpan, caught |-> None,
     reports |-> [success |-> 0, error |-> 0],
     subReports |-> NoSubReports, httpRequests |-> 0,
     result |-> None, raised |-> None, flushed |-> FALSE,
     response |-> None]

\* where an invocation awaits something that settles later: the remote
\* call, the retry delay, the report, the tracer flush; or it has ended
YieldPoints == {"operation", "retry_delay", "await_report", "flushing", "done"}

\* two requests have arrived; the handler of the first is about to run
InitTwo ==
    /\ pc = "generateWithAI"
    /\ DD_API_KEY \in {"unset", "valid", "invalid"}
    /\ request \in [auth : BOOLEAN, userImage : {TRUE}, poseImage : BOOLEAN]
    /\ operationName = "none"
    /\ attempt = 0
    /\ maxAttempts = 0
    /\ opScript = <<>>
    /\ other \in {FreshLocals(r) :
                    r \in [auth : BOOLEAN, userImage : {TRUE}, poseImage : BOOLEAN]}
    /\ InitCommon

\* variant: parentSpan is a variable of the module, shared by the
\* invocations, instead of a local of generateWithPose
Switch_sharedParentSpan ==
    /\ Concurrent
    /\ pc \in YieldPoints
    /\ other.pc # "done"
    /\ other' = Locals
    /\ pc' = other.pc
    /\ request' = other.request
    /\ operationName' = other.operationName
    /\ attempt' = other.attempt
    /\ maxAttempts' = other.maxAttempts
    /\ lastError' = other.lastError
    /\ invocations' = other.invocations
    /\ delays' = other.delays
    /\ retryResult' = other.retryResult
    /\ analysisLog' = other.analysisLog
    /\ imageCalls' = other.imageCalls
    /\ lastImageResp' = other.lastImageResp
    /\ imageInput' = other.imageInput
    /\ poseResult' = other.poseResult
    /\ generatedImage' = other.generatedImage
    /\ analyzeSpan' = other.analyzeSpan
    /\ generateSpan' = other.generateSpan
    /\ caught' = other.caught
    /\ reports' = other.reports
    /\ subReports' = other.subReports
    /\ httpRequests' = other.httpRequests
    /\ result' = other.result
    /\ raised' = other.raised
    /\ flushed' = other.flushed
    /\ response' = other.response
    /\ UNCHANGED <<parentSpan, DD_API_KEY, opScript>>

\* the running invocation awaits (or has ended) and the event loop resumes
\* the other one: each invocation goes on with its own locals
Switch ==
    /\ Concurrent
    /\ pc \in YieldPoints
    /\ other.pc # "done"
    /\ other' = Locals
    /\ pc' = other.pc
    /\ request' = other.request
    /\ operationName' = other.operationName
    /\ attempt' = other.attempt
    /\ maxAttempts' = other.maxAttempts
    /\ lastError' = other.lastError
    /\ invocations' = other.invocations
    /\ delays' = other.delays
    /\ retryResult' = other.retryResult
    /\ analysisLog' = other.analysisLog
    /\ imageCalls' = other.imageCalls
    /\ lastImageResp' = other.lastImageResp
    /\ imageInput' = other.imageInput
    /\ poseResult' = other.poseResult
    /\ generatedImage' = other.generatedImage
    /\ parentSpan' = other.parentSpan
    /\ analyzeSpan' = other.analyzeSpan
    /\ generateSpan' = other.generateSpan
    /\ caught' = other.caught
    /\ reports' = other.reports
    /\ subReports' = other.subReports
    /\ httpRequests' = other.httpRequests
    /\ result' = other.result
    /\ raised' = other.raised
    /\ flushed' = other.flushed
    /\ response' = other.response
    /\ UNCHANGED <<DD_API_KEY, opScript>>

NextTwo ==
    \/ RejectUnauthenticated
    \/ RejectInvalidArgument
    \/ InvokePipeline
    \/ StartPipeline
    \/ StartPoseAnalysis
    \/ RetryInvoke
    \/ OperationSettles
    \/ RetryDelayElapsed
    \/ RetryExhausted
    \/ PoseAnalysisReturned
    \/ StartImageGeneration
    \/ ImageGenerationReturned
    \/ StepFailed
    \/ HttpSettles
    \/ ReportResolves
    \/ RecordSuccessRejects
    \/ RecordErrorRejects
    \/ ReturnSuccess
    \/ ReturnFailure
    \/ PipelineRaised
    \/ PipelineFailed
    \/ StartFlush
    \/ FlushDone
    \/ Switch

SpecTwo == InitTwo /\ [][NextTwo]_vars

(* ------------------------------------------------------------------ *)
(* Properties                                                          *)
(* ------------------------------------------------------------------ *)
Returning == "success" \in DOMAIN result
Raising == "cls" \in DOMAIN raised
RunEnded == pc \in {"generateWithPose_exit", "flushing", "done"} /\ parentSpan.started
InRetry == pc \in {"retry_loop", "operation", "retry_delay"}

AllAttemptsFail == \A i \in 1..maxAttempts : opScript[i].kind = "error"
SucceedsFirstAt(k) ==
    /\ k \in 1..maxAttempts
    /\ opScript[k].kind = "value"
    /\ \A i \in 1..(k - 1) : opScript[i].kind = "error"

\* C1: when the operation fails on every one of the N attempts,
\* retryOperation has invoked it exactly N times (attempts 1..N) when it
\* ends, and what it throws is the error of attempt N itself.
C1_ExhaustionThrowsLastError ==
    (operationName = "operation" /\ pc = "retry_done" /\ AllAttemptsFail)
        => /\ invocations = [i \in 1..maxAttempts |-> i]
           /\ retryResult.kind = "error"
           /\ retryResult.v = opScript[maxAttempts].v

C1_Witness ==
    /\ operationName = "operation" /\ pc = "retry_done" /\ AllAttemptsFail
    /\ maxAttempts = 3
    /\ opScript[1].v # opScript[3].v
    /\ opScript[2].v # opScript[3].v

\* C2: when the operation fails on attempts 1..K-1 and succeeds on attempt
\* K <= N, it is never invoked more than K times, and when retryOperation
\* ends it has been invoked exactly K times and returns the value of
\* attempt K.
C2_SuccessShortCircuits ==
    \A k \in 1..MaxAttemptsBound :
        (operationName = "operation" /\ SucceedsFirstAt(k))
            => /\ Len(invocations) <= k
               /\ pc = "retry_done"
                    => /\ invocations = [i \in 1..k |-> i]
                       /\ retryResult.kind = "value"
                       /\ retryResult.v = opScript[k].v

C2_Witness ==
    /\ operationName = "operation" /\ pc = "retry_done"
    /\ maxAttempts = 3 /\ SucceedsFirstAt(2)
    /\ Len(invocations) = 2

PoseAnalysisExhausted ==
    /\ operationName = "generatePoseDescription"
    /\ ~InRetry
    /\ retryResult.kind = "error"

\* C3: once pose analysis has failed after its retries, no remote
\* image-generation call is made and the image step is never entered, and
\* when generateWithPose ends its parent span is finished and tagged
\* llm.status = "error".
C3_PoseFailureSkipsImageStep ==
    PoseAnalysisExhausted
        => /\ imageCalls = 0
           /\ ~generateSpan.started
           /\ "formattedDescription" \notin DOMAIN imageInput
           /\ RunEnded => (parentSpan.finishes = 1 /\ parentSpan.status = "error")

C3_Witness ==
    /\ PoseAnalysisExhausted /\ RunEnded
    /\ Len(analysisLog) = MAX_RETRIES
    /\ parentSpan.finishes = 1

\* the GenerationResult the remote results alone determine
ExpectedOutcome ==
    LET a == PoseOperation(analysisLog[Len(analysisLog)]) IN
    IF a.kind = "error" THEN [success |-> FALSE, error |-> ErrorMessageOf(a.v)]
    ELSE LET g == ImageOperation(lastImageResp) IN
         IF g.kind = "error" THEN [success |-> FALSE, error |-> ErrorMessageOf(g.v)]
         ELSE [success |-> TRUE, generatedImage |-> g.v,
               poseDescription |-> a.v.formattedDescription,
               poseData |-> a.v.poseData]

\* C4: the GenerationResult that generateWithPose returns is fixed by the
\* remote generation results alone: it is the same for every combination
\* of delivered, refused (non-success status) and failed (network error)
\* direct-report requests.
C4_OutcomeIgnoresDelivery ==
    Returning => result = ExpectedOutcome

C4_Witness ==
    /\ Returning /\ result.success
    /\ subReports[1].state = "dropped"
    /\ subReports[2].state = "delivered"
    /\ subReports[3].state = "dropped"

C6_NeverRaises ==
    (RunEnded /\ retryResult.kind = "error")
        => /\ ~Raising
           /\ Returning
           /\ ~result.success
           /\ result.error = (IF retryResult.v.cls = "NonError"
                              THEN "Unknown error" ELSE retryResult.v.message)

\* C7: when a run of generateWithPose has ended, by returning or by
\* raising, after success or after a failure of either step, its parent
\* span has been finished and recordSuccess or recordError has been called.
C7_FinishAndReportUnconditional ==
    RunEnded
        => /\ parentSpan.finishes >= 1
           /\ reports.success + reports.error >= 1

C7_Witness ==
    /\ RunEnded
    /\ operationName = "generatePoseImage"
    /\ retryResult.kind = "error"
    /\ parentSpan.finishes = 1
    /\ reports.error = 1

\* C8: when a run of generateWithPose has ended and returned its outcome,
\* every child span that was started has a status tag and is finished.
C8_ChildSpansFinished ==
    (RunEnded /\ Returning)
        => /\ analyzeSpan.started => (analyzeSpan.finishes = 1 /\ analyzeSpan.status # "unset")
           /\ generateSpan.started => (generateSpan.finishes = 1 /\ generateSpan.status # "unset")

\* C9: when generateWithAI hands control back after generateWithPose has
\* returned its outcome to it, success or failure, it has waited for the
\* tracer flush.
C9_FlushBeforeReturn ==
    (pc = "done" /\ Returning) => flushed

\* C10: a returned GenerationResult has exactly one branch: with
\* success = true its fields are generatedImage, poseDescription and
\* poseData, all with a value, and no error; with success = false its only
\* other field is error.
C10_ExactlyOneBranch ==
    Returning
        => IF result.success
           THEN /\ DOMAIN result = {"success", "generatedImage", "poseDescription", "poseData"}
                /\ result.generatedImage \in Images
                /\ Len(result.poseDescription) = Cardinality(Regions)
                /\ DOMAIN result.poseData = Regions
           ELSE DOMAIN result = {"success", "error"}

C10_Witness ==
    /\ Returning /\ ~result.success
    /\ "formattedDescription" \in DOMAIN poseResult
    /\ operationName = "generatePoseImage"

IsEmptyResponse(resp) == resp.kind = "resolve" /\ IsFalsyText(resp.text)

\* C11: when the first remote analysis call returns all seven region
\* descriptions and the first remote image call returns an image, the run
\* ends by returning success = true with that image and the description
\* built from the seven fields, after one analysis call and one image call,
\* with one success report, no error report, and the parent span finished
\* once and tagged "success".
C11_HappyPath ==
    (/\ RunEnded
     /\ Len(analysisLog) >= 1
     /\ PoseOperation(analysisLog[1]).kind = "value"
     /\ imageCalls = 1
     /\ ImageOperation(lastImageResp).kind = "value")
        => /\ Len(analysisLog) = 1
           /\ Returning
           /\ result.success
           /\ result.generatedImage = ImageOperation(lastImageResp).v
           /\ result.poseDescription =
                  FormatDescription(JSONparse(Trim(analysisLog[1].text)).v)
           /\ reports = [success |-> 1, error |-> 0]
           /\ parentSpan.finishes = 1
           /\ parentSpan.status = "success"

\* C12: when the remote analysis returns empty text on every attempt, the
\* run ends after exactly 3 analysis calls by returning success = false
\* with the empty-response message, with one error report, no success
\* report and no remote image call.
C12_EmptyAnalysisThrice ==
    (/\ RunEnded
     /\ Len(analysisLog) >= 1
     /\ \A i \in 1..Len(analysisLog) : IsEmptyResponse(analysisLog[i]))
        => /\ Len(analysisLog) = MAX_RETRIES
           /\ imageCalls = 0
           /\ Returning
           /\ ~result.success
           /\ result.error = ErrEmptyResponse.message
           /\ reports = [success |-> 0, error |-> 1]

\* C13: with maxAttempts = 1 the operation is never invoked more than
\* once and no delay is ever waited; when retryOperation ends it has
\* invoked the operation exactly once and hands on that attempt's outcome.
C13_SingleAttemptNoDelay ==
    (operationName = "operation" /\ maxAttempts = 1)
        => /\ Len(invocations) <= 1
           /\ delays = <<>>
           /\ pc # "retry_delay"
           /\ pc = "retry_done"
                => /\ invocations = <<1>>
                   /\ retryResult.kind = opScript[1].kind
                   /\ retryResult.v = opScript[1].v

C13_Witness ==
    /\ operationName = "operation" /\ maxAttempts = 1
    /\ pc = "retry_done"
    /\ retryResult.kind = "error"
    /\ delays = <<>>

\* C14: the promise of recordSuccess and of recordError never rejects:
\* whatever the HTTP request of a sub-report does, no sub-report's promise
\* is rejected (Promise.all rejects as soon as one of them is).
C14_ReportsNeverReject ==
    \A i \in 1..3 : subReports[i].state # "rejected"

\* C15: retryOperation invokes the operation with 1, 2, 3, ... in order;
\* invocation i is under way only after attempts 1..i-1 have failed and
\* i-1 delays have been waited; the delay is waited only after a failed
\* attempt i < maxAttempts; at the end a run that succeeded after F
\* failures has waited F delays and a run that failed F times has waited
\* F-1; every delay is RETRY_DELAY_MS.
C15_SequentialFixedDelay ==
    operationName = "operation"
        => /\ invocations = [i \in 1..Len(invocations) |-> i]
           /\ \A i \in 1..Len(delays) : delays[i] = RETRY_DELAY_MS
           /\ pc = "operation"
                => /\ Len(invocations) = attempt
                   /\ Len(delays) = attempt - 1
                   /\ \A j \in 1..(attempt - 1) : opScript[j].kind = "error"
           /\ pc = "retry_delay"
                => /\ attempt < maxAttempts
                   /\ opScript[attempt].kind = "error"
                   /\ Len(delays) = attempt - 1
           /\ pc = "retry_done"
                => Len(delays) = Len(invocations) - 1

C15_Witness ==
    /\ operationName = "operation" /\ pc = "retry_done"
    /\ maxAttempts = 3
    /\ retryResult.kind = "error"
    /\ Len(invocations) = 3
    /\ Len(delays) = 2

ReportCalls == reports.success + reports.error
AfterAwait == pc \in {"return_success", "return_failure", "generateWithPose_exit",
                      "flushing", "done"}

\* C16 as claimed: the parent span is already finished when the direct
\* report is invoked.
C16_FinishBeforeReport ==
    ReportCalls >= 1 => parentSpan.finishes >= 1

\* C16 as amended: at the end of a run the parent span is tagged, then the
\* direct report is invoked and awaited, and only then is the parent span
\* finished and the outcome handed back: while the report is awaited the
\* span is tagged and unfinished, a finished span belongs to a run that
\* has called a report and has ended, a returned outcome finds the span
\* finished once, and no tag is set after the finish.
C16_TagReportFinishReturn ==
    /\ pc = "await_report"
         => /\ parentSpan.status \in {"success", "error"}
            /\ parentSpan.finishes = 0
            /\ ReportCalls >= 1
    /\ parentSpan.finishes >= 1
         => /\ ReportCalls >= 1
            /\ RunEnded
            /\ Returning \/ Raising
    /\ Returning => parentSpan.finishes = 1
    /\ parentSpan.tagsAfterFinish = 0

C16_Witness ==
    /\ pc = "await_report"
    /\ reports = [success |-> 1, error |-> 0]
    /\ parentSpan.status = "success"
    /\ parentSpan.finishes = 0
    /\ \E i \in 1..3 : subReports[i].state = "inflight"

\* C17: generateWithPose has not handed back its outcome while an HTTP
\* request of its direct report is in flight: a request in flight means
\* the report is still awaited, and a returned outcome means all three
\* sub-reports have settled (or were skipped).
C17_ReturnAfterReportsSettle ==
    /\ (\E i \in 1..3 : subReports[i].state = "inflight") => pc = "await_report"
    /\ Returning => \A i \in 1..3 : subReports[i].state \in Resolved

C17_Witness ==
    /\ Returning
    /\ httpRequests = 3
    /\ \A i \in 1..3 : subReports[i].state \in {"delivered", "dropped"}
    /\ \E i \in 1..3 : subReports[i].state = "dropped"

\* C18: a report issues all three sub-reports, no failure of a sub-report
\* makes the report fail (recordSuccess is never followed by the catch
\* block's recordError and the run never raises), and the await of the
\* report is over only when all three have settled.
C18_SubReportsIndependent ==
    /\ ReportCalls >= 1 => \A i \in 1..3 : subReports[i].state # "none"
    /\ ~Raising
    /\ ~(reports.success >= 1 /\ reports.error >= 1)
    /\ (AfterAwait /\ ReportCalls >= 1)
         => \A i \in 1..3 : subReports[i].state \in Resolved

\* C19: a call of sendMetric or sendLog issues at most one HTTP request:
\* one when a key is configured and the request could be issued, none
\* otherwise; a delivery that ended in a network error or a non-success
\* status is settled (its promise resolved) with that single request.
C19_NoDeliveryRetry ==
    /\ \A i \in 1..3 :
         /\ subReports[i].requests <= 1
         /\ subReports[i].state \in {"inflight", "delivered", "dropped"}
              => subReports[i].requests = 1
         /\ subReports[i].state \in {"none", "skipped", "rejected"}
              => subReports[i].requests = 0
    /\ httpRequests <= 3 * ReportCalls

C19_Witness ==
    /\ Returning
    /\ subReports[1].state = "dropped" /\ subReports[1].requests = 1
    /\ subReports[3].state = "dropped" /\ subReports[3].requests = 1
    /\ httpRequests = 3

\* C20: also when a console call of retryOperation raises, an operation
\* that fails on every attempt has been invoked on every attempt 1..N when
\* retryOperation ends, and what is thrown is the operation's last error,
\* not the logging error.
C20_LoggingNeverMasks ==
    (operationName = "operation" /\ pc = "retry_done" /\ AllAttemptsFail)
        => /\ Len(invocations) = maxAttempts
           /\ retryResult.kind = "error"
           /\ retryResult.v # ErrConsole
           /\ retryResult.v = opScript[maxAttempts].v

\* remote analysis calls made so far, the one in flight included
AnalysisCalls ==
    Len(analysisLog)
    + (IF pc = "operation" /\ operationName = "generatePoseDescription" THEN 1 ELSE 0)

\* C21: the orchestrator never retries across the two steps: each step is
\* entered at most once, so at most 3 remote analysis calls and at most 3
\* remote image-generation calls are made, and once the image step has begun
\* (in particular once it has failed) no further analysis call is made
C21_NoRetryAcrossSteps ==
    /\ [](AnalysisCalls <= MAX_RETRIES /\ imageCalls <= MAX_RETRIES)
    /\ [][/\ (pc = "step1" /\ pc' = "retry_loop") => ~analyzeSpan.started
          /\ (pc = "step2" /\ pc' = "retry_loop") => ~generateSpan.started
          /\ operationName = "generatePoseImage" =>
                 /\ AnalysisCalls' = AnalysisCalls
                 /\ operationName' = "generatePoseImage"]_vars

\* the image step failed after 3 calls that followed 3 analysis calls
C21_Witness ==
    /\ RunEnded
    /\ operationName = "generatePoseImage"
    /\ retryResult.kind = "error"
    /\ imageCalls = MAX_RETRIES
    /\ Len(analysisLog) = MAX_RETRIES

\* the response of the latest remote analysis call
LastAnalysis == analysisLog[Len(analysisLog)]

\* C22: the pipeline moves Start -> AnalyzingPose -> {PoseAnalyzed | Failed}
\* -> GeneratingImage -> {ImageGenerated | Failed} -> Done: the image step
\* starts only after an analysis attempt succeeded (and only the last
\* analysis attempt succeeded), every image attempt works on the description
\* and pose data of that attempt, and no remote call of either kind is made
\* once the success or the failure has been reported
C22_TransitionsInOrder ==
    /\ [](/\ generateSpan.started =>
                 analyzeSpan.finishes = 1 /\ analyzeSpan.status = "success"
          /\ \A i \in 1..(Len(analysisLog) - 1) :
                 PoseOperation(analysisLog[i]).kind = "error"
          /\ (imageCalls >= 1 \/ operationName = "generatePoseImage") =>
                 /\ Len(analysisLog) >= 1
                 /\ PoseOperation(LastAnalysis).kind = "value"
                 /\ imageInput = PoseOperation(LastAnalysis).v
                 /\ imageInput.formattedDescription
                        = FormatDescription(imageInput.poseData))
    /\ [][ReportCalls >= 1 =>
              /\ AnalysisCalls' = AnalysisCalls
              /\ imageCalls' = imageCalls]_vars

\* the second image attempt is in flight after the second analysis attempt
\* succeeded
C22_Witness ==
    /\ pc = "operation"
    /\ operationName = "generatePoseImage"
    /\ imageCalls = 2
    /\ Len(analysisLog) = 2

IsMalformedResponse(resp) ==
    /\ resp.kind = "resolve"
    /\ ~IsFalsyText(resp.text)
    /\ JSONparse(Trim(resp.text)).kind = "error"

\* C23: in generatePoseDescription an empty and a malformed response are
\* retried identically: the i-th response, if empty or malformed, is the
\* response of attempt i and of no other, is followed by the 2000 ms delay and
\* attempt i + 1 when i < 3, and ends the step with its error when i = 3
C23_EmptyAndMalformedRetriedAlike ==
    operationName = "generatePoseDescription" =>
        \A i \in 1..Len(analysisLog) :
            (IsEmptyResponse(analysisLog[i]) \/ IsMalformedResponse(analysisLog[i])) =>
                /\ i <= MAX_RETRIES
                /\ Len(invocations) >= i /\ invocations[i] = i
                /\ i < MAX_RETRIES =>
                       \/ pc = "retry_delay" /\ attempt = i /\ Len(delays) = i - 1
                       \/ /\ Len(delays) >= i /\ delays[i] = RETRY_DELAY_MS
                          /\ \/ pc = "retry_loop" /\ attempt = i + 1
                             \/ Len(invocations) >= i + 1 /\ invocations[i + 1] = i + 1
                /\ i = MAX_RETRIES =>
                       /\ Len(delays) = MAX_RETRIES - 1
                       /\ \/ pc = "retry_loop" /\ attempt = MAX_RETRIES + 1
                          \/ retryResult = Thrown(PoseOperation(analysisLog[i]).v)

\* an empty response, then a malformed one, then a good one
C23_Witness ==
    /\ operationName = "generatePoseDescription"
    /\ Len(analysisLog) = 3
    /\ IsEmptyResponse(analysisLog[1])
    /\ IsMalformedResponse(analysisLog[2])
    /\ retryResult.kind = "value"
    /\ Len(delays) = 2

\* the parts of the first candidate of a resolved image response; none when
\* the response has no candidates, no first candidate, no content or no parts
ImageParts(resp) ==
    IF /\ resp.kind = "resolve"
       /\ resp.candidates[1] = "list"
       /\ Len(resp.candidates) = 3
    THEN resp.candidates[3]
    ELSE <<>>

ImageBearing(parts) == {i \in 1..Len(parts) : parts[i] \in Images}

\* C24: whatever the shape of the remote response, one attempt of
\* generatePoseImage returns the data of the first part that carries image
\* data, and fails with the NoImageReturned error when no part carries any
C24_FirstImageOrNoImageReturned ==
    (/\ operationName = "generatePoseImage"
     /\ pc \in {"retry_delay", "retry_loop", "retry_done"}
     /\ "kind" \in DOMAIN lastImageResp
     /\ lastImageResp.kind = "resolve") =>
        LET parts == ImageParts(lastImageResp)
            bearing == ImageBearing(parts)
        IN  IF bearing # {}
            THEN retryResult
                   = Returned(parts[CHOOSE i \in bearing : \A j \in bearing : i <= j])
            ELSE retryResult.kind # "value" /\ lastError = ErrNoImageReturned

\* C25: in every run, the parent span and each child span is finished at
\* most once, and no tag is set on a span after its finish
C25_SpansFinishedOnce ==
    \A span \in {parentSpan, analyzeSpan, generateSpan} :
        span.finishes <= 1 /\ span.tagsAfterFinish = 0

\* a run that tagged and finished all three spans
C25_Witness ==
    /\ RunEnded
    /\ parentSpan.status = "success"
    /\ \A span \in {parentSpan, analyzeSpan, generateSpan} : span.finishes = 1

\* the kinds of the sub-reports of the report issued last
ReportKinds == [i \in 1..3 |-> subReports[i].kind]

\* C26: recordSuccess issues exactly the request count tagged
\* status:success, the latency gauge and an info log line; recordError issues
\* exactly the request count tagged status:error, the error count and an
\* error log line; with a usable key each of the three is one HTTP request
C26_ReportComposition ==
    /\ ReportCalls = 0 => subReports = NoSubReports
    /\ (reports.success >= 1 /\ reports.error = 0) =>
           ReportKinds = <<"count:success", "latency", "log:info">>
    /\ reports.error >= 1 =>
           ReportKinds = <<"count:error", "error.count", "log:error">>
    /\ DD_API_KEY = "valid" => httpRequests = 3 * ReportCalls

\* an error report whose three requests are in flight
C26_Witness ==
    /\ pc = "await_report"
    /\ reports = [success |-> 0, error |-> 1]
    /\ \A i \in 1..3 : subReports[i].state = "inflight"

\* nothing of the pipeline has happened: no span, remote call or report
PipelineUntouched ==
    /\ \A span \in {parentSpan, analyzeSpan, generateSpan} : ~span.started
    /\ AnalysisCalls = 0 /\ imageCalls = 0
    /\ ReportCalls = 0 /\ httpRequests = 0 /\ subReports = NoSubReports
    /\ result = None /\ raised = None

\* what generateWithAI does with a request it does not accept
RejectsBeforePipeline ==
    /\ ~request.auth =>
           /\ PipelineUntouched
           /\ pc = "done" => response.kind = "error" /\ response.code = "unauthenticated"
    /\ (request.auth /\ ~(request.userImage /\ request.poseImage)) =>
           /\ PipelineUntouched
           /\ pc = "done" => response.kind = "error" /\ response.code = "invalid-argument"

\* C28 as stated: generateWithAI rejects an unauthenticated request and a
\* request without both images before the pipeline is invoked, and raises
\* for every failure outcome an 'internal' error whose message is the
\* outcome's error message
C28_FailureCarriesOutcomeMessage ==
    /\ RejectsBeforePipeline
    /\ (pc = "done" /\ Returning /\ ~result.success) =>
           response = HttpsError("internal", result.error)

\* C28 as the code has it: the 'internal' error carries the outcome's error
\* message, or "Generation failed" when that message is empty
C28_RejectsEarlyAndMapsFailure ==
    /\ RejectsBeforePipeline
    /\ (pc = "done" /\ Returning /\ ~result.success) =>
           /\ response.kind = "error" /\ response.code = "internal"
           /\ result.error # "" => response.message = result.error
           /\ result.error = "" => response.message = "Generation failed"
           /\ ~flushed

\* a failure outcome with an empty error message was mapped by the handler
C28_Witness ==
    /\ pc = "done"
    /\ Returning /\ ~result.success
    /\ result.error = ""
    /\ response.code = "internal"

(* ------------------------------------------------------------------ *)
(* Termination.  Every remote call and every HTTP request settles, and *)
(* the event loop runs whatever continuation is ready: weak fairness   *)
(* of each step of the handler.                                        *)
(* ------------------------------------------------------------------ *)
SpecFair == Init /\ [][Next]_vars /\ WF_vars(Next)

\* C29: if every remote call and every HTTP request settles, an invocation
\* of generateWithPose eventually returns a GenerationOutcome
C29_EventuallyReturnsOutcome == (pc = "generateWithPose") ~> Returning

\* the spans a run that returned has, as the remote results alone fix them
ExpectedSpans ==
    LET a == PoseOperation(LastAnalysis)
        tagged == finish(setStatusTag(startSpan, "success"))
    IN  [parent |-> finish(setStatusTag(startLLMSpan,
                       IF ExpectedOutcome.success THEN "success" ELSE "error")),
         analyze |-> IF a.kind = "value" THEN tagged ELSE startSpan,
         generate |-> IF a.kind = "error" THEN NoSpan
                      ELSE IF ExpectedOutcome.success THEN tagged ELSE startSpan]

\* C30: without a Datadog API key no HTTP request is issued, every
\* sub-report completes normally (skipped), and generateWithPose returns; the
\* outcome it returns and the spans it leaves are the ones the remote results
\* fix, the same with and without a key
C30_NoKeySameOutcome ==
    /\ DD_API_KEY = "unset" =>
           /\ httpRequests = 0
           /\ \A i \in 1..3 : /\ subReports[i].state \in {"none", "skipped"}
                              /\ subReports[i].requests = 0
           /\ ~Raising
           /\ RunEnded => Returning
    /\ Returning =>
           /\ result = ExpectedOutcome
           /\ [parent |-> parentSpan, analyze |-> analyzeSpan,
               generate |-> generateSpan] = ExpectedSpans

\* a successful run without a key: the three sub-reports were skipped
C30_Witness ==
    /\ DD_API_KEY = "unset"
    /\ Returning /\ result.success
    /\ reports.success = 1
    /\ \A i \in 1..3 : subReports[i].state = "skipped"

\* the GenerationResult that the remote results of invocation l fix
RunOutcome(l) ==
    LET a == PoseOperation(l.analysisLog[Len(l.analysisLog)]) IN
    IF a.kind = "error" THEN FailureResult(a.v)
    ELSE LET g == ImageOperation(l.lastImageResp) IN
         IF g.kind = "error" THEN FailureResult(g.v)
         ELSE SuccessResult(g.v, a.v)

\* the spans invocation l leaves when it runs alone with its remote results
RunSpans(l) ==
    LET a == PoseOperation(l.analysisLog[Len(l.analysisLog)])
        tagged == finish(setStatusTag(startSpan, "success"))
    IN  [parent |-> finish(setStatusTag(startLLMSpan,
                       IF RunOutcome(l).success THEN "success" ELSE "error")),
         analyze |-> IF a.kind = "value" THEN tagged ELSE startSpan,
         generate |-> IF a.kind = "error" THEN NoSpan
                      ELSE IF RunOutcome(l).success THEN tagged ELSE startSpan]

\* invocation l shows no trace of another invocation
IsolatedRun(l) ==
    /\ \A span \in {l.parentSpan, l.analyzeSpan, l.generateSpan} :
           span.finishes <= 1 /\ span.tagsAfterFinish = 0
    /\ l.imageCalls <= MAX_RETRIES /\ Len(l.analysisLog) <= MAX_RETRIES
    /\ ~l.parentSpan.started =>
           l.reports = [success |-> 0, error |-> 0] /\ l.httpRequests = 0
    /\ "success" \in DOMAIN l.result =>
           /\ l.result = RunOutcome(l)
           /\ [parent |-> l.parentSpan, analyze |-> l.analyzeSpan,
               generate |-> l.generateSpan] = RunSpans(l)
           /\ l.reports = IF l.result.success THEN [success |-> 1, error |-> 0]
                          ELSE [success |-> 0, error |-> 1]
           /\ [i \in 1..3 |-> l.subReports[i].kind]
                  = IF l.result.success THEN SuccessReport ELSE ErrorReport
           /\ l.httpRequests = IF DD_API_KEY = "valid" THEN 3 ELSE 0
           /\ \A i \in 1..3 : l.subReports[i].state \in Resolved

\* C27: two invocations interleaved in any order do not interfere: the
\* outcome of each, the spans it opens, tags and finishes and the report it
\* issues are fixed by its own remote results, as when it runs alone
C27_InvocationsDoNotInterfere ==
    Concurrent => IsolatedRun(Locals) /\ IsolatedRun(other)

\* both invocations have ended, one with an image after a retried analysis,
\* the other with the failure of its image step
C27_Witness ==
    /\ Concurrent
    /\ pc = "done" /\ other.pc = "done"
    /\ Returning /\ result.success /\ result.generatedImage = "img2"
    /\ Len(analysisLog) = 2
    /\ "success" \in DOMAIN other.result /\ ~other.result.success
    /\ other.imageCalls = MAX_RETRIES
    /\ other.parentSpan.status = "error"

\* C31: in every log entry that sendLog submits, status is the level
\* argument of the call ("info" for the success report, "error" for the error
\* report) and ddsource, ddtags, hostname, message and service are the values
\* sendLog gives them: additionalData overwrites none of the six
C31_LogStatusIsLevel ==
    \A i \in 1..3 :
        "status" \in DOMAIN subReports[i].entry =>
            LET entry == subReports[i].entry
                kind == subReports[i].kind
            IN  /\ entry.status = (IF kind = "log:info" THEN "info" ELSE "error")
                /\ entry.ddsource = "nodejs"
                /\ entry.ddtags = <<"env:", DD_ENV, ",service:", DD_SERVICE>>
                /\ entry.hostname = "firebase-functions"
                /\ entry.service = DD_SERVICE
                /\ entry.message[1] = (IF kind = "log:info"
                                       THEN "LLM generation completed: "
                                       ELSE "LLM generation failed: ")

====
